---- MODULE Spec2Model ----
(***************************************************************************)
(* A model of the release-reporting utility y3rsh/tag-play:                *)
(*   src/fromClone.ts      the clone-based reporter                        *)
(*   src/tags.ts           the API-based tag reporter                      *)
(*   src/unnamed/part_000  the earlier clone-based reporter                *)
(* Strings the code inspects (tag names, category keys) are sequences of   *)
(* one-character strings; dates are ISO-8601 strings with their value      *)
(* under new Date(..).getTime() given by GetTime, in seconds.              *)
(***************************************************************************)
EXTENDS Integers, Sequences, FiniteSets, TLC

VARIABLES
  variant,      \* which program runs: "fromClone", "tags" or "unnamed"
  tagList,      \* the repository's tags, in listing order: [name, sha]
  tagIdx,       \* fetchRecentTagCommits: index of the next tag of the loop
  commitsMap,   \* fetchRecentTagCommits: the Map, in insertion order
  filteredTags, \* tags.ts main: filteredTags
  tagDetails,   \* tags.ts main: state of each fetchTagDetails promise
  apiDates,     \* what getCommit answered as commit.author?.date, per promise
  tagsBySha,    \* tags.ts main: tagsBySha, in key insertion order
  shaGroups,    \* tags.ts main: shaGroups, after the sort
  latestShaGroupsByCategory, \* tags.ts main: latestShaGroupsByCategory
  tagPc,        \* position of the tag collection pass
  tagResult,    \* what the pass handed on (the returned array / the groups)
  failedTags,   \* names of the tags whose resolution failed
  catInput,     \* printLatestTagsByCategory: the commits it is given
  sortedCommits,\* part_000 printLatestTagsByCategory: sortedCommits
  catIdx,       \* printLatestTagsByCategory: index of the next commit
  byCategory,   \* mostRecentByCategory (part_000: categoryTags)
  catPc,        \* position of printLatestTagsByCategory
  gtToken,      \* process.env.GT
  octokitSingleton, \* the cached client, or undefined
  walkCommits,  \* commits.all of the release-branch walk, newest first
  walkIdx,      \* index of the commit the walk is at
  walkPc,       \* position of the walk
  prDataFinal,  \* prDataFinal of the current iteration
  jiraIds,      \* the Set jiraIds, in insertion order
  jiraLinks,    \* the Set jiraLinks, in insertion order
  filteredAndConverted, \* the Set filteredAndConvertedJiraLinks
  combined,     \* the Set combined: the links displayed, in order
  walkOut,      \* what the walk printed, in order
  prFetches,    \* the pulls.get calls made: [hash, pr, outcome]
  walkErrors,   \* hashes of the commits an error was logged for
  walkReturn,   \* part_000: what printCommitsUntilTagFound returned
  repoConfigs,  \* fromClone.ts repoConfigs: [releaseBranchPattern]
  mainPc,       \* position of main
  pipePc,       \* position of each configuration's async callback
  output,       \* the console: [config, line], in the order printed
  netCalls,     \* the network calls made so far: [config, call]
  exited,       \* the process was ended by an unhandled rejection
  fetchAll,     \* tags.ts getAllTags: the parameter fetchAll
  per_page,     \* tags.ts getAllTags: the parameter per_page
  page,         \* tags.ts getAllTags: page
  hasMore,      \* tags.ts getAllTags: hasMore
  allTags,      \* tags.ts getAllTags: allTags
  pagesRequested, \* the page numbers listTags was called with, in call order
  pagePc        \* position of getAllTags

tagVars == <<variant, tagList, tagIdx, commitsMap, filteredTags, tagDetails,
             apiDates, tagsBySha, shaGroups, latestShaGroupsByCategory,
             tagPc, tagResult, failedTags>>

catVars == <<catInput, sortedCommits, catIdx, byCategory, catPc>>

tagVarsButVariant ==
  <<tagList, tagIdx, commitsMap, filteredTags, tagDetails, apiDates,
    tagsBySha, shaGroups, latestShaGroupsByCategory, tagPc, tagResult,
    failedTags>>

walkVars ==
  <<gtToken, octokitSingleton, walkCommits, walkIdx, walkPc, prDataFinal,
    jiraIds, jiraLinks, filteredAndConverted, combined, walkOut, prFetches,
    walkErrors, walkReturn>>

walkState ==
  <<walkCommits, walkIdx, walkPc, prDataFinal, jiraIds, jiraLinks,
    filteredAndConverted, combined, walkOut, prFetches, walkErrors, walkReturn>>

mainVars == <<repoConfigs, mainPc, pipePc, output, netCalls, exited>>

pageVars == <<fetchAll, per_page, page, hasMore, allTags, pagesRequested, pagePc>>

vars == <<tagVars, catVars, walkVars, mainVars, pageVars>>

----------------------------------------------------------------------------
(* Bounds of the model *)
NumTags == 3
NumShas == 2
NumCommits == 6
NumWalkCommits == 3
NumConfigs == 2

----------------------------------------------------------------------------
(* Strings and dates *)

NoValue == "<undefined>"

Falsy(x) == x \in {NoValue, ""}

\* null where a number or an object is expected
NoNumber == -1
\* null or undefined where a string of characters is expected (a regex
\* match that fails, a find that finds nothing)
NoMatch == <<>>
NullBody == [isNull |-> TRUE, text |-> <<>>]
NullPrData == [isNull |-> TRUE, html_url |-> <<>>, title |-> <<>>, body |-> NullBody]
Body(text) == [isNull |-> FALSE, text |-> text]

StartsWith(s, p) == Len(s) >= Len(p) /\ SubSeq(s, 1, Len(p)) = p

Range(s) == {s[i] : i \in 1..Len(s)}

Min(a, b) == IF a <= b THEN a ELSE b

CountIn(s, x) == Cardinality({i \in 1..Len(s) : s[i] = x})

SentinelDate == "2007-10-29T02:42:39.000-07:00"

DatePool ==
  << "2024-03-01T10:00:00+00:00", "2024-03-01T12:00:00+02:00",
     "2024-02-01T09:00:00-05:00", "2024-04-01T00:00:00+00:00",
     "2024-01-15T08:30:00+00:00", "2024-05-20T18:00:00+01:00" >>

\* new Date(date).getTime(), in seconds since the epoch
GetTime(d) ==
  CASE d = "2007-10-29T02:42:39.000-07:00" -> 1193650959
    [] d = "2024-03-01T10:00:00+00:00" -> 1709287200
    [] d = "2024-03-01T12:00:00+02:00" -> 1709287200
    [] d = "2024-02-01T09:00:00-05:00" -> 1706796000
    [] d = "2024-04-01T00:00:00+00:00" -> 1711929600
    [] d = "2024-01-15T08:30:00+00:00" -> 1705307400
    [] d = "2024-05-20T18:00:00+01:00" -> 1716224400

\* The author date git records for commit sha (%aI): every commit has one.
AuthorDate(sha) == DatePool[((sha - 1) % Len(DatePool)) + 1]

\* Array.prototype.sort with (a, b) => new Date(b.date).getTime() -
\* new Date(a.date).getTime(): a stable sort, newest first
InsertByDateDesc(s, x) ==
  LET n == Cardinality({i \in 1..Len(s) : GetTime(s[i].date) >= GetTime(x.date)})
  IN SubSeq(s, 1, n) \o <<x>> \o SubSeq(s, n + 1, Len(s))

SortNoOp(s) == s

RECURSIVE SortByDateDesc(_)
SortByDateDesc(s) ==
  IF s = <<>> THEN <<>>
  ELSE InsertByDateDesc(SortByDateDesc(SubSeq(s, 1, Len(s) - 1)), s[Len(s)])

----------------------------------------------------------------------------
(* Parts of the state a run does not use *)

IdleTags ==
  /\ tagList = <<>> /\ tagIdx = 1 /\ commitsMap = <<>> /\ filteredTags = <<>>
  /\ tagDetails = <<>> /\ apiDates = <<>> /\ tagsBySha = <<>>
  /\ shaGroups = <<>> /\ latestShaGroupsByCategory = <<>>
  /\ tagPc = "idle" /\ tagResult = <<>> /\ failedTags = {}

IdleCat ==
  /\ catInput = <<>> /\ sortedCommits = <<>> /\ catIdx = 1
  /\ byCategory = <<>> /\ catPc = "idle"

IdleWalk ==
  /\ gtToken = NoValue /\ octokitSingleton = NoValue /\ walkCommits = <<>>
  /\ walkIdx = 1 /\ walkPc = "idle" /\ prDataFinal = NullPrData
  /\ jiraIds = <<>> /\ jiraLinks = <<>> /\ filteredAndConverted = <<>>
  /\ combined = <<>> /\ walkOut = <<>> /\ prFetches = <<>>
  /\ walkErrors = {} /\ walkReturn = NoNumber

IdleMain ==
  /\ repoConfigs = <<>> /\ mainPc = "idle" /\ pipePc = <<>>
  /\ output = <<>> /\ netCalls = {} /\ exited = FALSE

IdlePages ==
  /\ fetchAll = FALSE /\ per_page = 1 /\ page = 1 /\ hasMore = FALSE
  /\ allTags = <<>> /\ pagesRequested = <<>> /\ pagePc = "idle"

----------------------------------------------------------------------------
(* The repository's tags *)

NamePrefixes ==
  << <<"v">>, <<"x">>, <<"o", "t", "3", "@">>, <<"d", "o", "c", "s", "@">>,
     <<"o", "t", "2", "@">> >>

\* The name of the i-th tag of the repository: v1, x2, ot3@3, docs@4, ot2@5, v6 ...
TagName(i) == NamePrefixes[((i - 1) % Len(NamePrefixes)) + 1] \o <<ToString(i)>>

\* An annotated tag wraps its commit in a tag object; a lightweight tag is a bare ref.
IsAnnotated(name) == \E i \in 1..NumTags : TagName(i) = name /\ i % 2 = 0

Shas == 1..NumShas

\* Sequences without repetition over the set S
InjSeqs(S) ==
  UNION {{s \in [1..n -> S] : \A i, j \in 1..n : i # j => s[i] # s[j]} :
           n \in 0..Cardinality(S)}

\* Every listing of distinct tag names, each tag pointing at some commit
TagLists ==
  UNION {{[i \in 1..Len(ns) |-> [name |-> TagName(ns[i]), sha |-> f[ns[i]]]] :
            f \in [1..NumTags -> Shas]} : ns \in InjSeqs(1..NumTags)}

----------------------------------------------------------------------------
(* fromClone.ts: fetchRecentTagCommits *)

maxTags == 1000

IndexOfSha(m, sha) ==
  IF \E i \in 1..Len(m) : m[i].sha = sha
    THEN CHOOSE i \in 1..Len(m) : m[i].sha = sha
    ELSE 0

\* lines 198-211: push the tag on the entry of sha, or set a new entry
MapUpsertDropTag(m, sha, date, tagName) ==
  IF IndexOfSha(m, sha) # 0
    THEN m
    ELSE Append(m, [sha |-> sha, date |-> date, tags |-> <<tagName>>])

MapUpsert(m, sha, date, tagName) ==
  IF IndexOfSha(m, sha) # 0
    THEN [m EXCEPT ![IndexOfSha(m, sha)].tags = Append(@, tagName)]
    ELSE Append(m, [sha |-> sha, date |-> date, tags |-> <<tagName>>])

recentTags == SubSeq(tagList, 1, Min(maxTags, Len(tagList)))

\* git show --pretty=format:%H|||%aI|||... split on the delimiter: the second field
ShowDate(sha) == AuthorDate(sha)

\* One iteration of the loop: revparse and show succeed
FetchRecentTagCommitsStep ==
  /\ variant = "fromClone" /\ tagPc = "loop"
  /\ tagIdx <= Len(recentTags)
  /\ LET tag == recentTags[tagIdx]
         sha == tag.sha
     IN commitsMap' = MapUpsert(commitsMap, sha, ShowDate(sha), tag.name)
  /\ tagIdx' = tagIdx + 1
  /\ UNCHANGED <<variant, tagList, filteredTags, tagDetails, apiDates,
                 tagsBySha, tagPc, tagResult, failedTags,
                 shaGroups, latestShaGroupsByCategory,
                 catVars, walkVars, mainVars,
                 pageVars>>

\* One iteration of the loop: revparse or show throws; nothing catches it
\* inside fetchRecentTagCommits, so the returned promise rejects.
FetchRecentTagCommitsThrow ==
  /\ variant = "fromClone" /\ tagPc = "loop"
  /\ tagIdx <= Len(recentTags)
  /\ failedTags' = failedTags \cup {recentTags[tagIdx].name}
  /\ tagPc' = "rejected"
  /\ UNCHANGED <<variant, tagList, tagIdx, commitsMap, filteredTags,
                 tagDetails, apiDates, tagsBySha, tagResult,
                 shaGroups, latestShaGroupsByCategory,
                 catVars, walkVars, mainVars,
                 pageVars>>

\* line 213
FetchRecentTagCommitsReturn ==
  /\ variant = "fromClone" /\ tagPc = "loop"
  /\ tagIdx > Len(recentTags)
  /\ tagResult' = commitsMap
  /\ tagPc' = "returned"
  /\ UNCHANGED <<variant, tagList, tagIdx, commitsMap, filteredTags,
                 tagDetails, apiDates, tagsBySha, failedTags,
                 shaGroups, latestShaGroupsByCategory,
                 catVars, walkVars, mainVars,
                 pageVars>>

----------------------------------------------------------------------------
(* tags.ts: main, fetchTagDetails *)

tagCategories ==
  << <<"o", "t", "3">>, <<"v">>, <<"d", "o", "c", "s">>,
     <<"c", "o", "m", "p", "o", "n", "e", "n", "t", "s">>,
     <<"p", "r", "o", "t", "o", "c", "o", "l", "-", "d", "e", "s", "i", "g", "n", "e", "r">> >>

\* lines 93-103: for each category in turn, the tags whose name starts with it
RECURSIVE FilterByCategories(_, _)
FilterByCategories(tags, k) ==
  IF k > Len(tagCategories) THEN <<>>
  ELSE LET InCat(t) == StartsWith(t.name, tagCategories[k])
       IN SelectSeq(tags, InCat) \o FilterByCategories(tags, k + 1)

\* line 77: commitObj.commit.author?.date || '2007-10-29T02:42:39.000-07:00'
DetailsDateNoFallback(authorDate) == authorDate

DetailsDate(authorDate) == IF Falsy(authorDate) THEN SentinelDate ELSE authorDate

IndexOfKey(groups, sha) ==
  IF \E i \in 1..Len(groups) : groups[i].sha = sha
    THEN CHOOSE i \in 1..Len(groups) : groups[i].sha = sha
    ELSE 0

\* lines 111-116, one call of the forEach callback
GroupPush(groups, tag) ==
  IF IndexOfKey(groups, tag.sha) = 0
    THEN Append(groups, [sha |-> tag.sha, tags |-> <<tag>>])
    ELSE [groups EXCEPT ![IndexOfKey(groups, tag.sha)].tags = Append(@, tag)]

RECURSIVE GroupBySha(_, _)
GroupBySha(details, n) ==
  IF n = 0 THEN <<>> ELSE GroupPush(GroupBySha(details, n - 1), details[n])

\* lines 89-106: the tags are listed and filtered, and one fetchTagDetails per
\* filtered tag is started
TagsMainStart ==
  /\ variant = "tags" /\ tagPc = "start"
  /\ filteredTags' = FilterByCategories(tagList, 1)
  /\ tagDetails' = [i \in 1..Len(filteredTags') |-> [state |-> "pending"]]
  /\ apiDates' = [i \in 1..Len(filteredTags') |-> NoValue]
  /\ tagPc' = "awaitAll"
  /\ UNCHANGED <<variant, tagList, tagIdx, commitsMap, tagsBySha, tagResult,
                 failedTags,
                 shaGroups, latestShaGroupsByCategory,
                 catVars, walkVars, mainVars,
                 pageVars>>

\* fetchTagDetails, lines 69-79: getCommit answers; the author or its date
\* may be missing from the answer
FetchTagDetailsResolve(i) ==
  /\ variant = "tags" /\ tagPc \in {"awaitAll", "caught"}
  /\ i \in 1..Len(filteredTags) /\ tagDetails[i].state = "pending"
  /\ \E authorDate \in {NoValue, "", AuthorDate(filteredTags[i].sha)} :
       /\ apiDates' = [apiDates EXCEPT ![i] = authorDate]
       /\ tagDetails' = [tagDetails EXCEPT ![i] =
            [state |-> "fulfilled",
             value |-> [name |-> filteredTags[i].name,
                        date |-> DetailsDate(authorDate),
                        sha |-> filteredTags[i].sha]]]
  /\ UNCHANGED <<variant, tagList, tagIdx, commitsMap, filteredTags,
                 tagsBySha, tagPc, tagResult, failedTags,
                 shaGroups, latestShaGroupsByCategory,
                 catVars, walkVars, mainVars,
                 pageVars>>

\* fetchTagDetails, lines 80-83: getCommit throws; logged and thrown again
FetchTagDetailsReject(i) ==
  /\ variant = "tags" /\ tagPc \in {"awaitAll", "caught"}
  /\ i \in 1..Len(filteredTags) /\ tagDetails[i].state = "pending"
  /\ tagDetails' = [tagDetails EXCEPT ![i] = [state |-> "rejected"]]
  /\ failedTags' = failedTags \cup {filteredTags[i].name}
  /\ UNCHANGED <<variant, tagList, tagIdx, commitsMap, filteredTags,
                 apiDates, tagsBySha, tagPc, tagResult,
                 shaGroups, latestShaGroupsByCategory,
                 catVars, walkVars, mainVars,
                 pageVars>>

\* lines 119-123: Object.keys(tagsBySha).map(...): one group per key, in key
\* order, dated by the first tag of the group
ShaGroupsOf(groups) ==
  [k \in 1..Len(groups) |->
     [sha |-> groups[k].sha, tags |-> groups[k].tags, date |-> groups[k].tags[1].date]]

\* line 132: tagCategories.find(category => name.startsWith(category)):
\* the first category the name starts with, undefined when there is none
FindCategory(name) ==
  LET hits == {k \in 1..Len(tagCategories) : StartsWith(name, tagCategories[k])}
  IN IF hits = {} THEN NoMatch
     ELSE tagCategories[CHOOSE k \in hits : \A h \in hits : k <= h]

\* lines 132-135, one call of the forEach callback: the group is filed under
\* the category of its first tag, when that category has no group yet or an
\* older one
CategorizeGroup(latest, group) ==
  LET category == FindCategory(group.tags[1].name)
  IN IF category # NoMatch
        /\ (category \notin DOMAIN latest
            \/ GetTime(group.date) > GetTime(latest[category].date))
       THEN [c \in DOMAIN latest \cup {category} |->
               IF c = category THEN group ELSE latest[c]]
       ELSE latest

\* lines 131-136: shaGroups.forEach over the first n groups
RECURSIVE CategorizeGroups(_, _)
CategorizeGroups(groups, n) ==
  IF n = 0 THEN <<>>
  ELSE CategorizeGroup(CategorizeGroups(groups, n - 1), groups[n])

\* line 107 and lines 109-145: Promise.all fulfils with the details in the
\* order of filteredTags; they are grouped by sha, the groups are sorted
\* newest first, the latest group of each category is picked and printed
TagsMainGroup ==
  /\ variant = "tags" /\ tagPc = "awaitAll"
  /\ \A i \in 1..Len(filteredTags) : tagDetails[i].state = "fulfilled"
  /\ tagsBySha' = GroupBySha([i \in 1..Len(filteredTags) |-> tagDetails[i].value],
                             Len(filteredTags))
  /\ shaGroups' = SortByDateDesc(ShaGroupsOf(tagsBySha'))
  /\ latestShaGroupsByCategory' = CategorizeGroups(shaGroups', Len(shaGroups'))
  /\ tagResult' = tagsBySha'
  /\ tagPc' = "done"
  /\ UNCHANGED <<variant, tagList, tagIdx, commitsMap, filteredTags,
                 tagDetails, apiDates, failedTags,
                 catVars, walkVars, mainVars,
                 pageVars>>

\* line 107 and lines 146-148: Promise.all rejects with the first rejection;
\* main logs it and ends without a report
TagsMainCatch ==
  /\ variant = "tags" /\ tagPc = "awaitAll"
  /\ \E i \in 1..Len(filteredTags) : tagDetails[i].state = "rejected"
  /\ tagPc' = "caught"
  /\ UNCHANGED <<variant, tagList, tagIdx, commitsMap, filteredTags,
                 tagDetails, apiDates, tagsBySha, tagResult, failedTags,
                 shaGroups, latestShaGroupsByCategory,
                 catVars, walkVars, mainVars,
                 pageVars>>

----------------------------------------------------------------------------
(* The tag collection pass of either program *)

InitTags ==
  /\ variant \in {"fromClone", "tags"}
  /\ tagList \in TagLists
  /\ tagIdx = 1
  /\ commitsMap = <<>>
  /\ filteredTags = <<>>
  /\ tagDetails = <<>>
  /\ apiDates = <<>>
  /\ tagsBySha = <<>>
  /\ shaGroups = <<>>
  /\ latestShaGroupsByCategory = <<>>
  /\ tagPc = IF variant = "fromClone" THEN "loop" ELSE "start"
  /\ tagResult = <<>>
  /\ failedTags = {}
  /\ IdleCat /\ IdleWalk /\ IdleMain /\ IdlePages

NextTags ==
  \/ FetchRecentTagCommitsStep
  \/ FetchRecentTagCommitsThrow
  \/ FetchRecentTagCommitsReturn
  \/ TagsMainStart
  \/ \E i \in 1..NumTags : FetchTagDetailsResolve(i)
  \/ \E i \in 1..NumTags : FetchTagDetailsReject(i)
  \/ TagsMainGroup
  \/ TagsMainCatch

SpecTags == InitTags /\ [][NextTags]_vars

----------------------------------------------------------------------------
(* printLatestTagsByCategory of fromClone.ts and of part_000 *)

KFromClone == 3
KUnnamed == 5

RetainK == IF variant = "fromClone" THEN KFromClone ELSE KUnnamed

\* /^(v|ot3|docs|components|protocol-designer)/ : the alternatives, in order
tagRegexAlternatives ==
  << <<"v">>, <<"o", "t", "3">>, <<"d", "o", "c", "s">>,
     <<"c", "o", "m", "p", "o", "n", "e", "n", "t", "s">>,
     <<"p", "r", "o", "t", "o", "c", "o", "l", "-", "d", "e", "s", "i", "g", "n", "e", "r">> >>

\* tag.match(tagRegex): match[0] is the first alternative the tag starts
\* with; null when there is none
RegexMatch(tag) ==
  LET hits == {k \in 1..Len(tagRegexAlternatives) :
                 StartsWith(tag, tagRegexAlternatives[k])}
  IN IF hits = {} THEN NoMatch
     ELSE tagRegexAlternatives[CHOOSE k \in hits : \A h \in hits : k <= h]

\* The tags git shows on the i-th commit of the repository
CommitTags(i) ==
  (IF i % 7 = 0 THEN <<>> ELSE << <<"v", ToString(i)>> >>)
    \o (IF i % 3 = 2
          THEN << <<"o", "t", "3", "@", ToString(i)>>, <<"v", ToString(i), "b">> >>
          ELSE <<>>)
    \o (IF i % 3 = 0 THEN << <<"x", ToString(i)>> >> ELSE <<>>)

CommitOf(i) == [sha |-> i, date |-> AuthorDate(i), tags |-> CommitTags(i)]

\* Every ordering of the set S
Orderings(S) ==
  {s \in [1..Cardinality(S) -> S] : \A i, j \in 1..Cardinality(S) : i # j => s[i] # s[j]}

\* The commits of a repository of n commits (n up to NumCommits), listed in
\* any order
CommitLists ==
  UNION {{[k \in 1..n |-> CommitOf(ns[k])] : ns \in Orderings(1..n)} :
           n \in 0..NumCommits}

HasSha(list, sha) == \E i \in 1..Len(list) : list[i].sha = sha

\* mostRecentByCategory.get(category) || []
CategoryGet(map, category) ==
  IF category \in DOMAIN map THEN map[category] ELSE <<>>

CategorySet(map, category, list) ==
  [c \in DOMAIN map \cup {category} |-> IF c = category THEN list ELSE map[c]]

\* fromClone.ts lines 254-269: one tag of one commit
ConsiderTagFromClone(map, commit, tag) ==
  LET category == RegexMatch(tag)
      existingCommits == CategoryGet(map, category)
  IN IF category = NoMatch THEN map
     ELSE IF HasSha(existingCommits, commit.sha) THEN map
     ELSE CategorySet(map, category,
            SubSeq(SortByDateDesc(Append(existingCommits, commit)), 1,
                   Min(KFromClone, Len(existingCommits) + 1)))

\* part_000 lines 103-114: one tag of one commit
ConsiderTagUnnamed(map, commit, tag) ==
  LET category == RegexMatch(tag)
      created == IF category \in DOMAIN map THEN map
                 ELSE CategorySet(map, category, <<>>)
  IN IF category = NoMatch THEN map
     ELSE IF ~HasSha(created[category], commit.sha)
             /\ Len(created[category]) < KUnnamed
       THEN CategorySet(created, category, Append(created[category], commit))
       ELSE created

ConsiderTag(map, commit, tag) ==
  IF variant = "fromClone" THEN ConsiderTagFromClone(map, commit, tag)
  ELSE ConsiderTagUnnamed(map, commit, tag)

\* for (const tag of commit.tags): the first n tags of the commit
RECURSIVE ConsiderTags(_, _, _)
ConsiderTags(map, commit, n) ==
  IF n = 0 THEN map
  ELSE ConsiderTag(ConsiderTags(map, commit, n - 1), commit, commit.tags[n])

\* The commits in the order the outer loop takes them
CatWalk == IF variant = "fromClone" THEN catInput ELSE sortedCommits

\* part_000 line 97
CategorySortCommits ==
  /\ variant = "unnamed" /\ catPc = "sort"
  /\ sortedCommits' = SortByDateDesc(catInput)
  /\ catPc' = "loop"
  /\ UNCHANGED <<variant, catInput, catIdx, byCategory, tagVarsButVariant, walkVars, mainVars,
                 pageVars>>

\* One iteration of the outer loop
CategoryStep ==
  /\ catPc = "loop" /\ catIdx <= Len(CatWalk)
  /\ byCategory' = ConsiderTags(byCategory, CatWalk[catIdx],
                                Len(CatWalk[catIdx].tags))
  /\ catIdx' = catIdx + 1
  /\ UNCHANGED <<variant, catInput, sortedCommits, catPc, tagVarsButVariant, walkVars, mainVars,
                 pageVars>>

\* The loop is over: the categories are printed
CategoryPrint ==
  /\ catPc = "loop" /\ catIdx > Len(CatWalk)
  /\ catPc' = "printed"
  /\ UNCHANGED <<variant, catInput, sortedCommits, catIdx, byCategory,
                 tagVarsButVariant, walkVars, mainVars,
                 pageVars>>

InitCategory ==
  /\ variant \in {"fromClone", "unnamed"}
  /\ catInput \in CommitLists
  /\ sortedCommits = <<>>
  /\ catIdx = 1
  /\ byCategory = <<>>
  /\ catPc = IF variant = "fromClone" THEN "loop" ELSE "sort"
  /\ IdleTags /\ IdleWalk /\ IdleMain /\ IdlePages

NextCategory ==
  \/ CategorySortCommits
  \/ CategoryStep
  \/ CategoryPrint

SpecCategory == InitCategory /\ [][NextCategory]_vars

\* The commits taken so far that carry a tag of the category
CandidatesOf(category) ==
  {CatWalk[k] : k \in {j \in 1..(catIdx - 1) :
     \E t \in 1..Len(CatWalk[j].tags) : RegexMatch(CatWalk[j].tags[t]) = category}}

CategoriesSeen ==
  UNION {{RegexMatch(CatWalk[j].tags[t]) : t \in 1..Len(CatWalk[j].tags)} :
           j \in 1..(catIdx - 1)} \ {NoMatch}

\* C2: after any number of commits, every category's list has at most K
\* entries (3 in fromClone.ts, 5 in part_000) and no sha twice, holds only
\* candidates of the category, as many as there are up to K, and every
\* retained commit is at least as recent as every candidate not retained.
C2_CategoryRetention ==
  catPc \in {"loop", "printed"} =>
    /\ DOMAIN byCategory = CategoriesSeen
    /\ \A c \in DOMAIN byCategory :
         LET list == byCategory[c]
             kept == Range(list)
         IN /\ Len(list) <= RetainK
            /\ \A i, j \in 1..Len(list) : i # j => list[i].sha # list[j].sha
            /\ kept \subseteq CandidatesOf(c)
            /\ Len(list) = Min(RetainK, Cardinality(CandidatesOf(c)))
            /\ \A r \in kept : \A x \in CandidatesOf(c) \ kept :
                 GetTime(r.date) >= GetTime(x.date)

\* A category has seen more candidates than it retains, in either program
C2_Witness ==
  /\ catPc = "printed"
  /\ \E c \in DOMAIN byCategory :
       /\ Cardinality(CandidatesOf(c)) > RetainK
       /\ Len(byCategory[c]) = RetainK
       /\ \E x \in CandidatesOf(c) \ Range(byCategory[c]) :
            \E r \in Range(byCategory[c]) : GetTime(r.date) > GetTime(x.date)

\* The category keys the tags of a commit match
CategoriesOfTags(tags) == {RegexMatch(tags[t]) : t \in 1..Len(tags)} \ {NoMatch}

\* The categories whose list holds the commit
CategoriesHolding(sha) == {c \in DOMAIN byCategory : HasSha(byCategory[c], sha)}

\* Multi-category membership in printLatestTagsByCategory (fromClone.ts and
\* part_000): every commit taken is ranked in each category one of its tags
\* matches (it is in that category's list, or the list is full of commits at
\* least as recent), it is in no other category's list, and no tag of it
\* starts with the key of two lists that hold it.
MembershipInCategorizer ==
  catPc \in {"loop", "printed"} =>
    \A j \in 1..(catIdx - 1) :
      LET commit == CatWalk[j]
      IN /\ \A c \in CategoriesOfTags(commit.tags) :
              /\ c \in DOMAIN byCategory
              /\ \/ HasSha(byCategory[c], commit.sha)
                 \/ /\ Len(byCategory[c]) = RetainK
                    /\ \A r \in Range(byCategory[c]) :
                         GetTime(r.date) >= GetTime(commit.date)
         /\ CategoriesHolding(commit.sha) \subseteq CategoriesOfTags(commit.tags)
         /\ \A t \in 1..Len(commit.tags) :
              Cardinality({c \in CategoriesHolding(commit.sha) :
                             StartsWith(commit.tags[t], c)}) <= 1

\* A commit with tags of two categories is in the list of both
MembershipInCategorizer_Witness ==
  /\ catPc = "printed"
  /\ \E j \in 1..Len(CatWalk) :
       /\ Cardinality(CategoriesOfTags(CatWalk[j].tags)) >= 2
       /\ CategoriesHolding(CatWalk[j].sha) = CategoriesOfTags(CatWalk[j].tags)


----------------------------------------------------------------------------
(* Properties of the tag collection pass *)

\* The tags the pass has taken so far, and the tag names of an entry
TagsTaken ==
  IF variant = "fromClone" THEN SubSeq(recentTags, 1, tagIdx - 1) ELSE filteredTags

EntryNames(e) ==
  IF variant = "fromClone" THEN e.tags ELSE [i \in 1..Len(e.tags) |-> e.tags[i].name]

DedupOf(entries, taken) ==
  /\ \A i, j \in 1..Len(entries) : i # j => entries[i].sha # entries[j].sha
  /\ {entries[i].sha : i \in 1..Len(entries)} = {taken[k].sha : k \in 1..Len(taken)}
  /\ \A i \in 1..Len(entries) :
       /\ Range(EntryNames(entries[i])) \subseteq {taken[k].name : k \in 1..Len(taken)}
       /\ \A k \in 1..Len(taken) :
            CountIn(EntryNames(entries[i]), taken[k].name)
              = IF taken[k].sha = entries[i].sha THEN 1 ELSE 0

\* C1: the map of fetchRecentTagCommits (after every iteration, and as
\* returned) and the tagsBySha grouping of tags.ts hold exactly one entry per
\* distinct sha of the tags taken, and the entry of a sha lists every tag
\* name that resolves to that sha exactly once, in whatever order the tags
\* are listed.
C1_Dedup ==
  /\ variant = "fromClone" => DedupOf(commitsMap, TagsTaken)
  /\ (variant = "fromClone" /\ tagPc = "returned") =>
       /\ TagsTaken = recentTags
       /\ tagResult = commitsMap
  /\ (variant = "tags" /\ tagPc = "done") => DedupOf(tagResult, filteredTags)

\* fetchRecentTagCommits has returned two commits, one of them carrying two tags
C1_Witness ==
  /\ variant = "fromClone" /\ tagPc = "returned"
  /\ Len(tagResult) >= 2
  /\ \E i \in 1..Len(tagResult) : Len(tagResult[i].tags) >= 2

\* The same case for tags.ts: two tags of one sha were grouped
C1_WitnessTags ==
  /\ variant = "tags" /\ tagPc = "done"
  /\ \E i \in 1..Len(tagResult) : Len(tagResult[i].tags) >= 2

TagsListed == IF variant = "fromClone" THEN recentTags ELSE filteredTags

TagPassEnded == tagPc \in {"rejected", "returned", "caught", "done"}

\* C6: when resolving one tag fails, that tag is skipped and every other tag
\* is still collected and handed on: when the pass has ended, every listed
\* tag whose resolution did not fail is in the result.
C6_FailureIsolated ==
  TagPassEnded =>
    \A k \in 1..Len(TagsListed) :
      TagsListed[k].name \notin failedTags =>
        \E i \in 1..Len(tagResult) :
          TagsListed[k].name \in Range(EntryNames(tagResult[i]))

\* C10: every tag commit of fetchRecentTagCommits and every tag record of
\* fetchTagDetails has a non-empty date: the author date of the target
\* commit when the source gave one, the fixed sentinel date otherwise.
C10_DateNeverEmpty ==
  /\ \A i \in 1..Len(commitsMap) :
       /\ ~Falsy(commitsMap[i].date)
       /\ commitsMap[i].date = AuthorDate(commitsMap[i].sha)
  /\ \A i \in 1..Len(tagDetails) :
       tagDetails[i].state = "fulfilled" =>
         /\ ~Falsy(tagDetails[i].value.date)
         /\ ~Falsy(apiDates[i]) =>
              tagDetails[i].value.date = AuthorDate(tagDetails[i].value.sha)
         /\ Falsy(apiDates[i]) => tagDetails[i].value.date = SentinelDate

\* tags.ts has grouped a lightweight tag dated by its commit and a tag whose
\* commit came without an author date
C10_Witness ==
  /\ variant = "tags" /\ tagPc = "done"
  /\ \E i, j \in 1..Len(tagDetails) :
       /\ ~IsAnnotated(tagDetails[i].value.name)
       /\ tagDetails[i].value.date = AuthorDate(tagDetails[i].value.sha)
       /\ Falsy(apiDates[j])
       /\ tagDetails[j].value.date = SentinelDate

\* The category keys the tags of a sha group start with
GroupCategories(group) ==
  {FindCategory(group.tags[t].name) : t \in 1..Len(group.tags)} \ {NoMatch}

\* Multi-category membership in main of tags.ts: every sha group is ranked in
\* each category one of its tags starts with (that category has a latest
\* group, at least as recent as this one), and no tag of a latest group starts
\* with the key of two categories the group is filed under.
MembershipInTagsMain ==
  (variant = "tags" /\ tagPc = "done") =>
    /\ \A k \in 1..Len(shaGroups) : \A c \in GroupCategories(shaGroups[k]) :
         /\ c \in DOMAIN latestShaGroupsByCategory
         /\ GetTime(latestShaGroupsByCategory[c].date) >= GetTime(shaGroups[k].date)
    /\ \A k \in 1..Len(shaGroups) : \A t \in 1..Len(shaGroups[k].tags) :
         Cardinality({c \in DOMAIN latestShaGroupsByCategory :
                        /\ latestShaGroupsByCategory[c].sha = shaGroups[k].sha
                        /\ StartsWith(shaGroups[k].tags[t].name, c)}) <= 1

\* C11: a commit that carries tags matching different category keys is a
\* candidate in each of those categories, and a single tag name contributes
\* to at most one category -- in printLatestTagsByCategory and in the
\* categorization of sha groups of tags.ts alike.
C11_MultiCategoryMembership ==
  /\ MembershipInCategorizer
  /\ MembershipInTagsMain

----------------------------------------------------------------------------
(* fromClone.ts: getOctokitSingleton, fetchPRDetails,                      *)
(* printCommitsWithPRAndJiraLinks; part_000: printCommitsUntilTagFound     *)

\* A JavaScript Set, kept as the sequence of its elements in insertion order
SetAdd(set, x) == IF x \in Range(set) THEN set ELSE Append(set, x)

RECURSIVE SetAddAll(_, _, _)
SetAddAll(set, xs, n) ==
  IF n = 0 THEN set ELSE SetAdd(SetAddAll(set, xs, n - 1), xs[n])

\* new Set([...a, ...b])
SetOfSpread(a, b) == SetAddAll(SetAddAll(<<>>, a, Len(a)), b, Len(b))

UpperChar(c) ==
  CASE c = "o" -> "O" [] c = "t" -> "T" [] c = "r" -> "R" [] c = "q" -> "Q"
    [] c = "a" -> "A" [] c = "u" -> "U" [] c = "h" -> "H" [] OTHER -> c

\* String.prototype.toUpperCase
ToUpperCase(str) == [i \in 1..Len(str) |-> UpperChar(str[i])]

jiraBaseUrl == <<"https://opentrons.atlassian.net/browse/">>

\* The text of a pull request's title or body, as a sequence of pieces: a
\* plain word, an issue identifier <letters>-<digits>, or an issue URL
Word == [k |-> "word", letters |-> <<>>, digits |-> <<>>]
IdPiece(letters, digits) == [k |-> "id", letters |-> letters, digits |-> digits]
LinkPiece(letters, digits) == [k |-> "link", letters |-> letters, digits |-> digits]

\* jiraIdRegex = /([a-zA-Z]+-\d{1,5})/gi : letters, a dash, at most 5 digits;
\* it also matches the identifier at the end of an issue URL
JiraIdsOfPiece(piece) ==
  IF piece.k = "word" THEN <<>>
  ELSE << piece.letters \o <<"-">>
            \o SubSeq(piece.digits, 1, Min(5, Len(piece.digits))) >>

\* jiraLinkRegex = /https:\/\/opentrons\.atlassian\.net\/browse\/([A-Z]+-\d+)/gi
JiraLinksOfPiece(piece) ==
  IF piece.k = "link"
    THEN << jiraBaseUrl \o piece.letters \o <<"-">> \o piece.digits >>
    ELSE <<>>

\* text.match(regex): every match, in order
RECURSIVE MatchJiraIds(_)
MatchJiraIds(text) ==
  IF text = <<>> THEN <<>>
  ELSE MatchJiraIds(SubSeq(text, 1, Len(text) - 1)) \o JiraIdsOfPiece(text[Len(text)])

RECURSIVE MatchJiraLinks(_)
MatchJiraLinks(text) ==
  IF text = <<>> THEN <<>>
  ELSE MatchJiraLinks(SubSeq(text, 1, Len(text) - 1))
         \o JiraLinksOfPiece(text[Len(text)])

\* The pull requests of the repository
PullRequest(n) ==
  CASE n % 3 = 1 ->
         [isNull |-> FALSE, html_url |-> <<"pull/", n>>,
          title |-> << IdPiece(<<"o", "t">>, <<"2">>) >>,
          body |-> Body(<< LinkPiece(<<"R", "Q", "A">>, <<"1", "2">>), Word >>)]
    [] n % 3 = 2 ->
         [isNull |-> FALSE, html_url |-> <<"pull/", n>>,
          title |-> << IdPiece(<<"r", "q", "a">>, <<"1", "2">>) >>,
          body |-> NullBody]
    [] OTHER ->
         [isNull |-> FALSE, html_url |-> <<"pull/", n>>,
          title |-> << Word >>,
          body |-> Body(<< LinkPiece(<<"r", "q", "a">>, <<"7">>),
                      IdPiece(<<"O", "T">>, <<"3">>),
                      IdPiece(<<"A", "U", "T", "H">>, <<"1", "2", "3", "4", "5", "6">>),
                      LinkPiece(<<"R", "Q", "A">>, <<"1", "2">>),
                      IdPiece(<<"o", "t">>, <<"2", "0">>) >>)]

\* The numbers after '#' in the message of the i-th commit of the walk
MessagePRs(i) ==
  CASE i % 4 = 1 -> <<1>> [] i % 4 = 2 -> <<>> [] i % 4 = 3 -> <<3, 2>>
    [] OTHER -> <<2>>

\* commit.refs (%D): nothing, a branch, or a branch and a tag
RefShapes ==
  { <<>>, <<"origin/chore_release-7.1.0">>,
    <<"origin/chore_release-7.1.0", ", ", "tag:", " v7.1.0">> }

WalkCommitLists ==
  UNION {{[i \in 1..n |-> [hash |-> 100 + i, refs |-> r[i], prs |-> MessagePRs(i)]] :
            r \in [1..n -> RefShapes]} : n \in 0..NumWalkCommits}

\* commit.refs && /tag:/.test(commit.refs)
HasTagMarkerNever(refs) == FALSE

HasTagMarker(refs) == refs # <<>> /\ "tag:" \in Range(refs)

\* commit.message.match(/#(\d+)/): the first number, or null
PrMatch(commit) == IF commit.prs = <<>> THEN NoNumber ELSE commit.prs[1]

\* lines 121-132: the identifiers and links of a fetched pull request
IdsAfter(ids, prData) ==
  LET bodyIds == IF prData.body.isNull THEN <<>> ELSE MatchJiraIds(prData.body.text)
      titleIds == MatchJiraIds(prData.title)
      upper(xs) == [i \in 1..Len(xs) |-> ToUpperCase(xs[i])]
  IN SetAddAll(SetAddAll(ids, upper(bodyIds), Len(bodyIds)),
               upper(titleIds), Len(titleIds))

LinksAfter(links, prData) ==
  LET bodyLinks == IF prData.body.isNull THEN <<>> ELSE MatchJiraLinks(prData.body.text)
  IN SetAddAll(links, bodyLinks, Len(bodyLinks))

\* lines 135-137: the catch around fetchPRDetails logs the error and the
\* iteration goes on to report the commit
AfterCaughtRethrow == "rejected"

AfterCaught == "report"

\* `PR Link: ${prDataFinal ? prDataFinal.html_url : 'N/A'}`
PrLink(prData) == IF prData.isNull THEN <<"N/A">> ELSE prData.html_url

ExcludedIds == { <<"O", "T", "-", "2">>, <<"O", "T", "-", "3">> }

\* lines 155-157: drop the excluded identifiers, convert the rest to URLs
FilterAndConvertNoFilter(ids) ==
  SetAddAll(<<>>, [i \in 1..Len(ids) |-> jiraBaseUrl \o ids[i]], Len(ids))

FilterAndConvert(ids) ==
  LET NotExcluded(id) == id \notin ExcludedIds
      kept == SelectSeq(ids, NotExcluded)
  IN SetAddAll(<<>>, [i \in 1..Len(kept) |-> jiraBaseUrl \o kept[i]], Len(kept))

WalkCurrent == walkCommits[walkIdx]

IterStart ==
  /\ variant = "fromClone" /\ walkPc = "iter" /\ walkIdx <= Len(walkCommits)

\* lines 112-114: the message names no pull request
WalkNoPR ==
  /\ IterStart
  /\ PrMatch(WalkCurrent) = NoNumber
  /\ prDataFinal' = NullPrData
  /\ walkPc' = "report"
  /\ UNCHANGED <<variant, gtToken, octokitSingleton, walkCommits, walkIdx,
                 jiraIds, jiraLinks, filteredAndConverted, combined, walkOut,
                 prFetches, walkErrors, walkReturn, tagVarsButVariant, catVars, mainVars,
                 pageVars>>

\* lines 62-67 and 74: there is no client and no token; getOctokitSingleton
\* throws outside the try of fetchPRDetails, whose promise rejects; the catch
\* of line 135 takes it
WalkFetchNoToken ==
  /\ IterStart
  /\ PrMatch(WalkCurrent) # NoNumber
  /\ octokitSingleton = NoValue /\ Falsy(gtToken)
  /\ prDataFinal' = NullPrData
  /\ walkErrors' = walkErrors \cup {WalkCurrent.hash}
  /\ walkPc' = AfterCaught
  /\ UNCHANGED <<variant, gtToken, octokitSingleton, walkCommits, walkIdx,
                 jiraIds, jiraLinks, filteredAndConverted, combined, walkOut,
                 prFetches, walkReturn, tagVarsButVariant, catVars, mainVars,
                 pageVars>>

HaveClient == octokitSingleton # NoValue \/ ~Falsy(gtToken)

\* lines 76-82 and 119-134: pulls.get answers with the pull request
WalkFetchOk ==
  /\ IterStart
  /\ PrMatch(WalkCurrent) # NoNumber
  /\ HaveClient
  /\ octokitSingleton' = "octokit"
  /\ LET prData == PullRequest(PrMatch(WalkCurrent))
     IN /\ jiraIds' = IdsAfter(jiraIds, prData)
        /\ jiraLinks' = LinksAfter(jiraLinks, prData)
        /\ prDataFinal' = prData
  /\ prFetches' = Append(prFetches,
       [hash |-> WalkCurrent.hash, pr |-> PrMatch(WalkCurrent), outcome |-> "ok"])
  /\ walkPc' = "report"
  /\ UNCHANGED <<variant, gtToken, walkCommits, walkIdx, filteredAndConverted,
                 combined, walkOut, walkErrors, walkReturn, tagVarsButVariant,
                 catVars, mainVars,
                 pageVars>>

\* lines 84-87: pulls.get throws (transport error, not found); fetchPRDetails
\* logs it and returns null
WalkFetchError ==
  /\ IterStart
  /\ PrMatch(WalkCurrent) # NoNumber
  /\ HaveClient
  /\ octokitSingleton' = "octokit"
  /\ prDataFinal' = NullPrData
  /\ prFetches' = Append(prFetches,
       [hash |-> WalkCurrent.hash, pr |-> PrMatch(WalkCurrent), outcome |-> "error"])
  /\ walkErrors' = walkErrors \cup {WalkCurrent.hash}
  /\ walkPc' = "report"
  /\ UNCHANGED <<variant, gtToken, walkCommits, walkIdx, jiraIds, jiraLinks,
                 filteredAndConverted, combined, walkOut, walkReturn,
                 tagVarsButVariant, catVars, mainVars,
                 pageVars>>

\* lines 139-146: the commit carries a tag; it is reported as the most
\* recent tag, the comparison link is printed and the loop is left
WalkReportTag ==
  /\ variant = "fromClone" /\ walkPc = "report"
  /\ HasTagMarker(WalkCurrent.refs)
  /\ walkOut' = walkOut \o
       << [kind |-> "mostRecentTag", hash |-> WalkCurrent.hash,
           prLink |-> PrLink(prDataFinal)],
          [kind |-> "diff", hash |-> WalkCurrent.hash,
           prLink |-> <<"...", walkCommits[1].hash>>] >>
  /\ walkPc' = "links"
  /\ UNCHANGED <<variant, gtToken, octokitSingleton, walkCommits, walkIdx,
                 prDataFinal, jiraIds, jiraLinks, filteredAndConverted,
                 combined, prFetches, walkErrors, walkReturn,
                 tagVarsButVariant, catVars, mainVars,
                 pageVars>>

\* lines 147-150: the commit carries no tag; it is reported and the loop
\* goes on
WalkReportCommit ==
  /\ variant = "fromClone" /\ walkPc = "report"
  /\ ~HasTagMarker(WalkCurrent.refs)
  /\ walkOut' = Append(walkOut,
       [kind |-> "commit", hash |-> WalkCurrent.hash,
        prLink |-> PrLink(prDataFinal)])
  /\ walkIdx' = walkIdx + 1
  /\ walkPc' = "iter"
  /\ UNCHANGED <<variant, gtToken, octokitSingleton, walkCommits,
                 prDataFinal, jiraIds, jiraLinks, filteredAndConverted,
                 combined, prFetches, walkErrors, walkReturn,
                 tagVarsButVariant, catVars, mainVars,
                 pageVars>>

\* line 111: the commits are exhausted
WalkLoopEnd ==
  /\ variant = "fromClone" /\ walkPc = "iter" /\ walkIdx > Len(walkCommits)
  /\ walkPc' = "links"
  /\ UNCHANGED <<variant, gtToken, octokitSingleton, walkCommits, walkIdx,
                 prDataFinal, jiraIds, jiraLinks, filteredAndConverted,
                 combined, walkOut, prFetches, walkErrors, walkReturn,
                 tagVarsButVariant, catVars, mainVars,
                 pageVars>>

\* lines 155-166: the links are computed and printed
WalkPrintLinks ==
  /\ variant = "fromClone" /\ walkPc = "links"
  /\ filteredAndConverted' = FilterAndConvert(jiraIds)
  /\ combined' = SetOfSpread(filteredAndConverted', jiraLinks)
  /\ walkOut' = walkOut \o
       [i \in 1..Len(combined') |->
          [kind |-> "jiraLink", hash |-> NoNumber, prLink |-> combined'[i]]]
  /\ walkPc' = "done"
  /\ UNCHANGED <<variant, gtToken, octokitSingleton, walkCommits, walkIdx,
                 prDataFinal, jiraIds, jiraLinks, prFetches, walkErrors,
                 walkReturn, tagVarsButVariant, catVars, mainVars,
                 pageVars>>

\* part_000 lines 28-36: one iteration of printCommitsUntilTagFound
UntilTagStep ==
  /\ variant = "unnamed" /\ walkPc = "iter" /\ walkIdx <= Len(walkCommits)
  /\ IF HasTagMarker(WalkCurrent.refs)
       THEN /\ walkOut' = walkOut \o
                 << [kind |-> "commit", hash |-> WalkCurrent.hash, prLink |-> <<>>],
                    [kind |-> "tagFound", hash |-> WalkCurrent.hash, prLink |-> <<>>] >>
            /\ walkReturn' = WalkCurrent.hash
            /\ walkPc' = "done"
            /\ UNCHANGED walkIdx
       ELSE /\ walkOut' = Append(walkOut,
                 [kind |-> "commit", hash |-> WalkCurrent.hash, prLink |-> <<>>])
            /\ walkIdx' = walkIdx + 1
            /\ UNCHANGED <<walkReturn, walkPc>>
  /\ UNCHANGED <<variant, gtToken, octokitSingleton, walkCommits,
                 prDataFinal, jiraIds, jiraLinks, filteredAndConverted,
                 combined, prFetches, walkErrors, tagVarsButVariant, catVars, mainVars,
                 pageVars>>

\* part_000 line 39: no tag was found
UntilTagEnd ==
  /\ variant = "unnamed" /\ walkPc = "iter" /\ walkIdx > Len(walkCommits)
  /\ walkPc' = "done"
  /\ UNCHANGED <<variant, gtToken, octokitSingleton, walkCommits, walkIdx,
                 prDataFinal, jiraIds, jiraLinks, filteredAndConverted,
                 combined, walkOut, prFetches, walkErrors, walkReturn,
                 tagVarsButVariant, catVars, mainVars,
                 pageVars>>

InitWalk ==
  /\ variant \in {"fromClone", "unnamed"}
  /\ gtToken \in IF variant = "fromClone" THEN {NoValue, "", "ghp_token"} ELSE {NoValue}
  /\ octokitSingleton = NoValue
  /\ walkCommits \in WalkCommitLists
  /\ walkIdx = 1
  /\ walkPc = "iter"
  /\ prDataFinal = NullPrData
  /\ jiraIds = <<>> /\ jiraLinks = <<>> /\ filteredAndConverted = <<>>
  /\ combined = <<>> /\ walkOut = <<>> /\ prFetches = <<>>
  /\ walkErrors = {} /\ walkReturn = NoNumber
  /\ IdleTags /\ IdleCat /\ IdleMain /\ IdlePages

NextWalk ==
  \/ WalkNoPR
  \/ WalkFetchNoToken
  \/ WalkFetchOk
  \/ WalkFetchError
  \/ WalkReportTag
  \/ WalkReportCommit
  \/ WalkLoopEnd
  \/ WalkPrintLinks
  \/ UntilTagStep
  \/ UntilTagEnd

SpecWalk == InitWalk /\ [][NextWalk]_vars

----------------------------------------------------------------------------
(* Properties of the walk *)

\* Position in the walk of the first commit whose refs hold a tag marker, 0
\* when there is none
FirstTagged ==
  LET tagged == {i \in 1..Len(walkCommits) :
                   \E k \in 1..Len(walkCommits[i].refs) : walkCommits[i].refs[k] = "tag:"}
  IN IF tagged = {} THEN 0 ELSE CHOOSE i \in tagged : \A j \in tagged : i <= j

\* Position of the last commit the walk is to examine
LastExamined == IF FirstTagged = 0 THEN Len(walkCommits) ELSE FirstTagged

PositionOf(hash) == CHOOSE i \in 1..Len(walkCommits) : walkCommits[i].hash = hash

IsCommitReport(line) == line.kind # "jiraLink"

CommitReports == SelectSeq(walkOut, IsCommitReport)

ReportSummary == [k \in 1..Len(CommitReports) |->
                    <<CommitReports[k].kind, CommitReports[k].hash>>]

UntaggedUpTo(n) == [i \in 1..n |-> <<"commit", walkCommits[i].hash>>]

WalkLoopLeft == walkPc \in {"links", "done"}

\* C3: the walk reports every commit before the first tagged commit as an
\* untagged commit, then that commit as the most recent tag, then one
\* comparison link from it to the first commit of the walk, and nothing
\* else; no commit after the first tagged one is ever reported or has its
\* pull request fetched. (part_000: every commit up to the first tagged one
\* is printed, the walk stops there and returns its hash.)
C3_TraversalTermination ==
  /\ \A k \in 1..Len(prFetches) : PositionOf(prFetches[k].hash) <= LastExamined
  /\ \A k \in 1..Len(CommitReports) :
       PositionOf(CommitReports[k].hash) <= LastExamined
  /\ (variant = "fromClone" /\ WalkLoopLeft) =>
       IF FirstTagged = 0
         THEN ReportSummary = UntaggedUpTo(Len(walkCommits))
         ELSE /\ ReportSummary = UntaggedUpTo(FirstTagged - 1) \o
                   << <<"mostRecentTag", walkCommits[FirstTagged].hash>>,
                      <<"diff", walkCommits[FirstTagged].hash>> >>
              /\ CommitReports[Len(CommitReports)].prLink
                   = <<"...", walkCommits[1].hash>>
  /\ (variant = "unnamed" /\ walkPc = "done") =>
       IF FirstTagged = 0
         THEN /\ ReportSummary = UntaggedUpTo(Len(walkCommits))
              /\ walkReturn = NoNumber
         ELSE /\ ReportSummary = UntaggedUpTo(FirstTagged) \o
                   << <<"tagFound", walkCommits[FirstTagged].hash>> >>
              /\ walkReturn = walkCommits[FirstTagged].hash

\* The walk of fromClone.ts has ended at a tagged commit that has untagged
\* commits before it and a commit naming a pull request after it
C3_Witness ==
  /\ variant = "fromClone" /\ walkPc = "done"
  /\ FirstTagged >= 2 /\ FirstTagged < Len(walkCommits)
  /\ walkCommits[FirstTagged + 1].prs # <<>>
  /\ ~Falsy(gtToken)

IsReportOf(line, hash) ==
  line.kind \in {"commit", "mostRecentTag"} /\ line.hash = hash

\* The identifiers (upper-cased) and the links of the pull requests fetched
FetchedOk == {k \in 1..Len(prFetches) : prFetches[k].outcome = "ok"}

IdsOfPr(pr) ==
  {ToUpperCase(id) :
     id \in Range(MatchJiraIds(pr.title))
        \cup (IF pr.body.isNull THEN {} ELSE Range(MatchJiraIds(pr.body.text)))}

LinksOfPr(pr) == IF pr.body.isNull THEN {} ELSE Range(MatchJiraLinks(pr.body.text))

ExtractedIds == UNION {IdsOfPr(PullRequest(prFetches[k].pr)) : k \in FetchedOk}

ExtractedLinks == UNION {LinksOfPr(PullRequest(prFetches[k].pr)) : k \in FetchedOk}

\* C4: a commit whose pull-request fetch fails is still reported, with
\* 'PR Link: N/A'; nothing enters the identifier and link sets for it; the
\* walk is never aborted, and when the loop is left every commit up to the
\* last one to examine has been reported.
C4_DegradedRun ==
  variant = "fromClone" =>
    /\ walkPc # "rejected"
    /\ \A h \in walkErrors :
         /\ (PositionOf(h) < walkIdx \/ WalkLoopLeft) =>
              \E k \in 1..Len(walkOut) : IsReportOf(walkOut[k], h)
         /\ \A k \in 1..Len(walkOut) :
              IsReportOf(walkOut[k], h) => walkOut[k].prLink = <<"N/A">>
    /\ Range(jiraIds) = ExtractedIds
    /\ Range(jiraLinks) = ExtractedLinks
    /\ WalkLoopLeft =>
         \A i \in 1..LastExamined :
           \E k \in 1..Len(walkOut) : IsReportOf(walkOut[k], walkCommits[i].hash)

\* A fetch failed for one commit and a later commit was reported with the
\* link of its pull request
C4_Witness ==
  /\ variant = "fromClone" /\ walkPc = "done"
  /\ \E h \in walkErrors : \E k \in 1..Len(walkOut) :
       /\ IsReportOf(walkOut[k], h) /\ walkOut[k].prLink = <<"N/A">>
       /\ \E m \in (k + 1)..Len(walkOut) :
            /\ walkOut[m].kind \in {"commit", "mostRecentTag"}
            /\ walkOut[m].prLink # <<"N/A">>

\* The token is missing: every fetch failed before any call, and every
\* commit was still reported
C4_WitnessNoToken ==
  /\ variant = "fromClone" /\ walkPc = "done" /\ Falsy(gtToken)
  /\ Cardinality(walkErrors) >= 2 /\ prFetches = <<>>

ConvertedLinks == {jiraBaseUrl \o id : id \in ExtractedIds \ ExcludedIds}

IsJiraLine(line) == line.kind = "jiraLink"

\* C7: at the end of the walk the links displayed are those of the
\* upper-cased identifiers other than OT-2 and OT-3, converted to URLs,
\* together with the issue URLs extracted as they were; the converted part
\* holds no URL of OT-2 or OT-3, and no link is displayed twice.
C7_IssueLinkSet ==
  (variant = "fromClone" /\ walkPc = "done") =>
    /\ Range(combined) = ConvertedLinks \cup ExtractedLinks
    /\ Range(filteredAndConverted) = ConvertedLinks
    /\ \A id \in ExcludedIds : jiraBaseUrl \o id \notin Range(filteredAndConverted)
    /\ \A i, j \in 1..Len(combined) : i # j => combined[i] # combined[j]
    /\ LET shown == SelectSeq(walkOut, IsJiraLine)
       IN [k \in 1..Len(shown) |-> shown[k].prLink] = combined

\* An excluded identifier was extracted, and a link is in both sets
C7_Witness ==
  /\ variant = "fromClone" /\ walkPc = "done"
  /\ \E id \in ExcludedIds : id \in Range(jiraIds)
  /\ ConvertedLinks \cap ExtractedLinks # {}
  /\ Len(combined) >= 3

----------------------------------------------------------------------------
(* fromClone.ts: main, and the async callback of repoConfigs.forEach *)

Configs == 1..Len(repoConfigs)

Line(c, text) == [config |-> c, line |-> text]
Call(c, what) == [config |-> c, call |-> what]

\* One to NumConfigs configurations, each with or without releaseBranchPattern
ConfigLists ==
  UNION {[1..n -> {[releaseBranchPattern |-> TRUE], [releaseBranchPattern |-> FALSE]}] :
           n \in 1..NumConfigs}

\* lines 301-311: forEach calls the async callback once per configuration;
\* each call runs to its first await and hands back a promise that forEach
\* drops; main's own promise is then fulfilled
MainForEach ==
  /\ mainPc = "start"
  /\ pipePc' = [c \in Configs |-> "cloneAndFetch"]
  /\ mainPc' = "returned"
  /\ UNCHANGED <<variant, repoConfigs, output, netCalls, exited, gtToken,
                 octokitSingleton, tagVarsButVariant, catVars, walkState,
                 pageVars>>

Running(c) == c \in Configs /\ mainPc = "returned" /\ ~exited

\* lines 25-32: the mirror is cloned when it is missing, then the fetch starts
PipeCloneAndFetch(c) ==
  /\ Running(c) /\ pipePc[c] = "cloneAndFetch"
  /\ \E directoryExists \in BOOLEAN :
       IF directoryExists
         THEN /\ output' = Append(output, Line(c, "Fetching..."))
              /\ netCalls' = netCalls \cup {Call(c, "fetch")}
         ELSE /\ output' = output \o << Line(c, "Cloning..."), Line(c, "Fetching...") >>
              /\ netCalls' = netCalls \cup {Call(c, "clone"), Call(c, "fetch")}
  /\ pipePc' = [pipePc EXCEPT ![c] = "fetching"]
  /\ UNCHANGED <<variant, repoConfigs, mainPc, exited, gtToken,
                 octokitSingleton, tagVarsButVariant, catVars, walkState,
                 pageVars>>

\* lines 32-34 and 304-306: the fetch is done, the tag commits are
\* collected from the mirror and the categories and the last 5 tags are
\* printed
PipeTagReports(c) ==
  /\ Running(c) /\ pipePc[c] = "fetching"
  /\ output' = output \o << Line(c, "Done fetching."), Line(c, "Category, TAGS") >>
  /\ pipePc' = [pipePc EXCEPT ![c] =
       IF repoConfigs[c].releaseBranchPattern THEN "walk" ELSE "done"]
  /\ UNCHANGED <<variant, repoConfigs, mainPc, netCalls, exited, gtToken,
                 octokitSingleton, tagVarsButVariant, catVars, walkState,
                 pageVars>>

\* lines 307-309: the walk of the release branch, for a commit that names a
\* pull request. Without a client and a token getOctokitSingleton throws and
\* the walk's catch takes it: no call is made and the link is N/A.
PipeWalk(c) ==
  /\ Running(c) /\ pipePc[c] = "walk"
  /\ IF octokitSingleton = NoValue /\ Falsy(gtToken)
       THEN /\ output' = Append(output, Line(c, "PR Link: N/A"))
            /\ UNCHANGED <<netCalls, octokitSingleton>>
       ELSE /\ octokitSingleton' = "octokit"
            /\ netCalls' = netCalls \cup {Call(c, "pulls.get")}
            /\ \E answered \in BOOLEAN :
                 output' = Append(output,
                   IF answered THEN Line(c, "PR Link: url") ELSE Line(c, "PR Link: N/A"))
  /\ pipePc' = [pipePc EXCEPT ![c] = "done"]
  /\ UNCHANGED <<variant, repoConfigs, mainPc, exited, gtToken,
                 tagVarsButVariant, catVars, walkState,
                 pageVars>>

\* A git or network operation of the callback throws (clone, fetch,
\* rev-parse, show, log): nothing in the callback or in main catches it, and
\* the callback's promise rejects unhandled
PipeThrow(c) ==
  /\ Running(c)
  /\ pipePc[c] \in {"cloneAndFetch", "fetching", "walk"}
  /\ pipePc' = [pipePc EXCEPT ![c] = "failed"]
  /\ UNCHANGED <<variant, repoConfigs, mainPc, output, netCalls, exited,
                 gtToken, octokitSingleton, tagVarsButVariant, catVars, walkState,
                 pageVars>>

\* An unhandled rejection ends the process on runtimes whose default is to
\* throw on it (a warning only on the others): what still runs is cut off
ProcessExit ==
  /\ ~exited
  /\ \E c \in Configs : pipePc[c] = "failed"
  /\ exited' = TRUE
  /\ UNCHANGED <<variant, repoConfigs, mainPc, pipePc, output, netCalls,
                 gtToken, octokitSingleton, tagVarsButVariant, catVars, walkState,
                 pageVars>>

InitMain ==
  /\ variant = "fromClone"
  /\ repoConfigs \in ConfigLists
  /\ mainPc = "start"
  /\ pipePc = [c \in Configs |-> "notStarted"]
  /\ output = <<>> /\ netCalls = {} /\ exited = FALSE
  /\ IdleTags /\ IdleCat /\ IdlePages
  /\ gtToken \in {NoValue, "ghp_token"}
  /\ octokitSingleton = NoValue /\ walkCommits = <<>>
  /\ walkIdx = 1 /\ walkPc = "idle" /\ prDataFinal = NullPrData
  /\ jiraIds = <<>> /\ jiraLinks = <<>> /\ filteredAndConverted = <<>>
  /\ combined = <<>> /\ walkOut = <<>> /\ prFetches = <<>>
  /\ walkErrors = {} /\ walkReturn = NoNumber

NextMain ==
  \/ MainForEach
  \/ \E c \in 1..NumConfigs : PipeCloneAndFetch(c)
  \/ \E c \in 1..NumConfigs : PipeTagReports(c)
  \/ \E c \in 1..NumConfigs : PipeWalk(c)
  \/ \E c \in 1..NumConfigs : PipeThrow(c)
  \/ ProcessExit

SpecMain == InitMain /\ [][NextMain]_vars

PipelineEnded(c) == pipePc[c] \in {"done", "failed"}

\* C5: when the credential GT is missing the run aborts before any network
\* call is attempted and prints no report.
C5_FailFastNoCredential ==
  (mainPc # "idle" /\ Falsy(gtToken)) => (netCalls = {} /\ output = <<>>)

\* C8: the lines of one configuration's report are never interleaved with
\* the lines of another's: between two lines of a configuration there is no
\* line of another.
C8_AtomicOutput ==
  \A i, j, k \in 1..Len(output) :
    (i < j /\ j < k /\ output[i].config = output[k].config)
      => output[j].config = output[i].config

\* C9: main is complete only when every configuration's pipeline has
\* completed, and a pipeline that fails does not keep another from
\* completing.
C9_ExplicitJoin ==
  /\ mainPc = "returned" => \A c \in Configs : PipelineEnded(c)
  /\ exited => \A c \in Configs : PipelineEnded(c)

----------------------------------------------------------------------------
(* tags.ts: getAllTags *)

MaxListed == 5
MaxPerPage == 3

\* The tags the repository has when getAllTags runs: the first n tags of the
\* repository, n up to MaxListed, in the order the API lists them
ListedTags ==
  {[i \in 1..n |-> [name |-> TagName(i), sha |-> ((i - 1) % NumShas) + 1]] :
     n \in 0..MaxListed}

\* response.data of octokit.rest.repos.listTags({per_page, page}): the page-th
\* run of per_page tags of the listing, shorter or empty at its end
ListTags(tags, perPage, pageNo) ==
  SubSeq(tags, (pageNo - 1) * perPage + 1, Min(pageNo * perPage, Len(tags)))

\* line 53: fetchAll && response.data.length === per_page
HasMoreAfterAnyPage(all, length, perPage) == length = perPage

HasMoreAfter(all, length, perPage) == all /\ length = perPage

\* lines 35-38, with a client at hand or a token to make one
GetAllTagsStart ==
  /\ pagePc = "start" /\ HaveClient
  /\ octokitSingleton' = "octokit"
  /\ allTags' = <<>>
  /\ page' = 1
  /\ hasMore' = TRUE
  /\ pagePc' = "loop"
  /\ UNCHANGED <<fetchAll, per_page, pagesRequested, gtToken, tagVars, catVars,
                 walkState, mainVars>>

\* line 35: getOctokitSingleton throws 'GitHub token not found'
GetAllTagsNoToken ==
  /\ pagePc = "start" /\ ~HaveClient
  /\ pagePc' = "rejected"
  /\ UNCHANGED <<fetchAll, per_page, page, hasMore, allTags, pagesRequested,
                 tagVars, catVars, walkVars, mainVars>>

\* lines 40-57, one iteration of the loop: listTags answers
GetAllTagsPage ==
  /\ pagePc = "loop" /\ hasMore
  /\ pagesRequested' = Append(pagesRequested, page)
  /\ LET data == ListTags(tagList, per_page, page)
     IN IF Len(data) > 0
          THEN /\ allTags' = allTags \o data
               /\ page' = page + 1
               /\ hasMore' = HasMoreAfter(fetchAll, Len(data), per_page)
          ELSE /\ hasMore' = FALSE
               /\ UNCHANGED <<allTags, page>>
  /\ UNCHANGED <<fetchAll, per_page, pagePc, tagVars, catVars, walkVars, mainVars>>

\* line 42: listTags throws; nothing in getAllTags catches it
GetAllTagsPageThrow ==
  /\ pagePc = "loop" /\ hasMore
  /\ pagesRequested' = Append(pagesRequested, page)
  /\ pagePc' = "rejected"
  /\ UNCHANGED <<fetchAll, per_page, page, hasMore, allTags,
                 tagVars, catVars, walkVars, mainVars>>

\* lines 60-61
GetAllTagsReturn ==
  /\ pagePc = "loop" /\ ~hasMore
  /\ pagePc' = "returned"
  /\ UNCHANGED <<fetchAll, per_page, page, hasMore, allTags, pagesRequested,
                 tagVars, catVars, walkVars, mainVars>>

InitGetAllTags ==
  /\ variant = "tags"
  /\ tagList \in ListedTags
  /\ tagIdx = 1 /\ commitsMap = <<>> /\ filteredTags = <<>>
  /\ tagDetails = <<>> /\ apiDates = <<>> /\ tagsBySha = <<>>
  /\ shaGroups = <<>> /\ latestShaGroupsByCategory = <<>>
  /\ tagPc = "idle" /\ tagResult = <<>> /\ failedTags = {}
  /\ gtToken \in {NoValue, "", "ghp_token"}
  /\ octokitSingleton = NoValue /\ walkCommits = <<>>
  /\ walkIdx = 1 /\ walkPc = "idle" /\ prDataFinal = NullPrData
  /\ jiraIds = <<>> /\ jiraLinks = <<>> /\ filteredAndConverted = <<>>
  /\ combined = <<>> /\ walkOut = <<>> /\ prFetches = <<>>
  /\ walkErrors = {} /\ walkReturn = NoNumber
  /\ IdleCat /\ IdleMain
  /\ fetchAll \in BOOLEAN
  /\ per_page \in 1..MaxPerPage
  /\ page = 1 /\ hasMore = FALSE /\ allTags = <<>>
  /\ pagesRequested = <<>>
  /\ pagePc = "start"

NextGetAllTags ==
  \/ GetAllTagsStart
  \/ GetAllTagsNoToken
  \/ GetAllTagsPage
  \/ GetAllTagsPageThrow
  \/ GetAllTagsReturn

\* An async function that is awaited runs on: the event loop resumes it after
\* each answer of listTags
SpecGetAllTags ==
  InitGetAllTags /\ [][NextGetAllTags]_vars /\ WF_vars(NextGetAllTags)

\* The first n pages of the listing, one after the other
RECURSIVE ConcatPages(_, _, _)
ConcatPages(tags, perPage, n) ==
  IF n = 0 THEN <<>>
  ELSE ConcatPages(tags, perPage, n - 1) \o ListTags(tags, perPage, n)

PageLength(pageNo) == Len(ListTags(tagList, per_page, pageNo))

GetAllTagsEnded == pagePc \in {"returned", "rejected"}

\* What holds of the requests made and the tags gathered at every moment, and
\* of the result once getAllTags has returned
PaginationSafe ==
  /\ \A i \in 1..Len(pagesRequested) : pagesRequested[i] = i
  /\ \A i \in 1..(Len(pagesRequested) - 1) :
       fetchAll /\ PageLength(i) = per_page
  /\ pagePc = "returned" =>
       /\ Len(pagesRequested) >= 1
       /\ ~fetchAll => Len(pagesRequested) = 1
       /\ fetchAll => PageLength(Len(pagesRequested)) < per_page
       /\ allTags = ConcatPages(tagList, per_page, Len(pagesRequested))
       /\ fetchAll => allTags = tagList
       /\ \A i, j \in 1..Len(allTags) : i # j => allTags[i].name # allTags[j].name

\* C12: getAllTags requests exactly one page when fetchAll is false; when it
\* is true it requests pages 1, 2, ... in order up to the first page that is
\* empty or shorter than per_page and none after it; the loop ends for every
\* finite tag list, and what is returned is the pages fetched, one after the
\* other in page order, with no tag lost or repeated.
C12_Pagination == []PaginationSafe /\ <>GetAllTagsEnded

\* A listing that takes three pages or more, the last one short but not empty
C12_Witness ==
  /\ pagePc = "returned" /\ fetchAll
  /\ Len(pagesRequested) >= 3
  /\ PageLength(Len(pagesRequested)) > 0
  /\ allTags = tagList

\* A listing whose length is a multiple of per_page: one empty page ends it
C12_WitnessEmptyPage ==
  /\ pagePc = "returned" /\ fetchAll
  /\ Len(pagesRequested) >= 3
  /\ PageLength(Len(pagesRequested)) = 0
  /\ allTags = tagList

====
